---- MODULE Spec2Model ----
(***************************************************************************)
(* Crawl core of taotao-hufa: Crawler (src/crawler.py) driven by           *)
(* run_analysis (src/main.py).                                             *)
(*                                                                         *)
(* A URL is a record [path, ext]: `path` identifies the page, `ext` is the *)
(* extension its path ends with ("" for none).  The web site and the       *)
(* robots.txt of the target are the environment: `site` pins the response  *)
(* of session.get(url) for the URLs in its domain (a URL outside it may    *)
(* answer with any response), and `robots_parser` is the RobotFileParser   *)
(* that _load_robots returned.                                             *)
(***************************************************************************)
EXTENDS Integers, Sequences, FiniteSets, TLC

VARIABLES
    site,           \* environment: URL -> the response the server gives (partial)
    base_url,       \* Crawler.base_url (seed)
    max_pages,      \* Crawler.max_pages
    robots_parser,  \* Crawler.robots_parser
    visited,        \* Crawler.visited
    pages,          \* Crawler.pages, insertion-ordered dict as a sequence of records
    queue,          \* local `queue` of crawl()
    io,             \* history: the session.get and time.sleep calls made so far
    rejected,       \* history: the admission conditions that turned a link down
    dequeues,       \* history: the number of queue.popleft() calls made so far
    pc,             \* position of run_analysis / crawl
    call,           \* a call of one function of utils.py or of _fetch_page
    ret             \* what that call returned

vars ==
    <<site, base_url, max_pages, robots_parser, visited, pages, queue, io, rejected,
      dequeues, pc, call, ret>>

\* ------------------------------------------------------------------ bounds
NumPages == 3
MaxLinks == 2
MaxBudget == 3

\* -------------------------------------------------------------------- URLs
\* host and port are those of the URL's authority; `bracket` says that the
\* authority holds an unbalanced "[", on which urlparse raises ValueError
Url(path, ext, host) ==
    [path |-> path, ext |-> ext, host |-> host, port |-> "", bracket |-> FALSE]

P(i) == Url(i, "", "a.com")

Pages == {P(i) : i \in 1..NumPages}

Assets == {Url(1, ".pdf", "a.com")}

URLs == Pages \cup Assets

skip_extensions ==
    {".pdf", ".zip", ".rar", ".gz", ".tar",
     ".jpg", ".jpeg", ".png", ".gif", ".svg", ".webp", ".ico",
     ".mp3", ".mp4", ".avi", ".mov", ".wmv",
     ".css", ".js", ".woff", ".woff2", ".ttf", ".eot",
     ".doc", ".docx", ".xls", ".xlsx", ".ppt", ".pptx"}

is_crawlable_url(url) == url.ext \notin skip_extensions

Range(s) == {s[i] : i \in 1..Len(s)}

\* urlparse(url).netloc: host and port as written, "ValueError" when
\* urlparse raises
netloc(u) ==
    IF u.bracket THEN <<"ValueError">>
    ELSE IF u.port = "" THEN <<u.host>>
    ELSE <<u.host, ":", u.port>>

\* utils.is_same_domain: `except Exception: return False`
is_same_domain(url, base) ==
    IF url.bracket \/ base.bracket THEN FALSE
    ELSE netloc(url) = netloc(base)

\* ------------------------------------------------------------- environment
LinkSeqs(U) == UNION {[1..n -> U] : n \in 0..MaxLinks}

StatusCodes == {200, 404}

TransportFailure ==
    [exc |-> TRUE, status |-> 0, html |-> FALSE, links |-> <<>>, bad_href |-> FALSE,
     redirected |-> FALSE]

NonHtml(s) ==
    [exc |-> FALSE, status |-> s, html |-> FALSE, links |-> <<>>, bad_href |-> FALSE,
     redirected |-> FALSE]

Html(s, l) ==
    [exc |-> FALSE, status |-> s, html |-> TRUE, links |-> l, bad_href |-> FALSE,
     redirected |-> FALSE]

HtmlBadHref(s) ==
    [exc |-> FALSE, status |-> s, html |-> TRUE, links |-> <<>>, bad_href |-> TRUE,
     redirected |-> FALSE]

\* the answer of another URL, reached over redirects (allow_redirects=True)
HtmlRedirected(s, l) ==
    [exc |-> FALSE, status |-> s, html |-> TRUE, links |-> l, bad_href |-> FALSE,
     redirected |-> TRUE]

Responses(U) ==
    {TransportFailure}
        \cup {NonHtml(s) : s \in StatusCodes}
        \cup {Html(s, l) : s \in StatusCodes, l \in LinkSeqs(U)}
        \cup {HtmlBadHref(s) : s \in StatusCodes}
        \cup {HtmlRedirected(s, <<>>) : s \in StatusCodes}

AnyResponse == Responses(URLs)

\* what session.get(url) may return
Serve(url) == IF url \in DOMAIN site THEN {site[url]} ELSE AnyResponse

\* ------------------------------------------------------------ robots gate
\* RobotFileParser as _load_robots leaves it.  read() sets disallow_all on
\* HTTP 401/403, allow_all on any other 4xx, parses the body on success
\* (which sets last_checked) and sets nothing on a 5xx answer; when read()
\* raises (URLError, timeout, undecodable body) the except clause of
\* _load_robots swallows the exception and the parser is returned unread.
\* `rules` is the verdict of the parsed entries for the crawler's
\* user-agent: "allow", "deny", or "raise" when evaluating the URL raises.
NoRules(U) == [u \in U |-> "allow"]

Unread(U, failed) ==
    [disallow_all |-> FALSE, allow_all |-> FALSE, last_checked |-> FALSE,
     load_failed |-> failed, rules |-> NoRules(U)]

Forbidden(U) ==
    [disallow_all |-> TRUE, allow_all |-> FALSE, last_checked |-> FALSE,
     load_failed |-> FALSE, rules |-> NoRules(U)]

Missing(U) ==
    [disallow_all |-> FALSE, allow_all |-> TRUE, last_checked |-> FALSE,
     load_failed |-> FALSE, rules |-> NoRules(U)]

Parsed(r) ==
    [disallow_all |-> FALSE, allow_all |-> FALSE, last_checked |-> TRUE,
     load_failed |-> FALSE, rules |-> r]

\* every choice of denied URLs, and rules whose evaluation raises
RuleSets(U) == [U -> {"allow", "deny"}] \cup {[u \in U |-> "raise"]}

_load_robots(U) ==
    {Unread(U, TRUE), Unread(U, FALSE), Forbidden(U), Missing(U)}
        \cup {Parsed(r) : r \in RuleSets(U)}

\* RobotFileParser.can_fetch: "allow", "deny" or "raise"
can_fetch(rp, url) ==
    IF rp.disallow_all THEN "deny"
    ELSE IF rp.allow_all THEN "allow"
    ELSE IF ~rp.last_checked THEN "deny"
    ELSE rp.rules[url]

\* the verdict of the parsed rules ignored
_can_fetch_ignoring_rules(rp, url) ==
    IF rp.last_checked THEN TRUE ELSE can_fetch(rp, url) = "allow"

\* Crawler._can_fetch: an exception inside can_fetch counts as allowed
_can_fetch(rp, url) ==
    IF can_fetch(rp, url) = "raise" THEN TRUE ELSE can_fetch(rp, url) = "allow"

\* ------------------------------------------------------------ page fetcher
\* The result of _fetch_page: a PageData, or Raised when an exception other
\* than requests.RequestException leaves it (normalize_url raises ValueError
\* on an href such as "http://[x", inside _parse_html).
Raised == [raised |-> "ValueError"]

PageData(url, status, error, html, links) ==
    [url |-> url, status_code |-> status, error |-> error, html |-> html,
     internal_links |-> links]

\* every link counted as internal
internal_links_unclassified(hrefs) == hrefs

\* _parse_html: of the links of the page, those on the host of base_url go
\* to page.internal_links
internal_links(hrefs) ==
    LET Same(l) == is_same_domain(l, base_url)
    IN  SelectSeq(hrefs, Same)

\* the except clause left out: RequestException leaves _fetch_page
_fetch_page_uncaught(url, resp) ==
    IF resp.exc THEN Raised
    ELSE IF ~resp.html THEN PageData(url, resp.status, "", FALSE, <<>>)
    ELSE IF resp.bad_href THEN Raised
    ELSE PageData(url, resp.status, "", TRUE, internal_links(resp.links))

\* resp.url, the URL the redirects ended at
FinalUrl == Url(0, "/final", "a.com")

\* the record named after the final URL of the response
_fetch_page_final_url(url, resp) ==
    IF resp.exc THEN PageData(url, 0, "RequestException", FALSE, <<>>)
    ELSE IF ~resp.html THEN PageData(url, resp.status, "", FALSE, <<>>)
    ELSE IF resp.bad_href THEN Raised
    ELSE PageData(IF resp.redirected THEN FinalUrl ELSE url, resp.status, "", TRUE,
                  internal_links(resp.links))

_fetch_page(url, resp) ==
    IF resp.exc THEN PageData(url, 0, "RequestException", FALSE, <<>>)
    ELSE IF ~resp.html THEN PageData(url, resp.status, "", FALSE, <<>>)
    ELSE IF resp.bad_href THEN Raised
    ELSE PageData(url, resp.status, "", TRUE, internal_links(resp.links))

\* ---------------------------------------------------------- dict helpers
\* a dict is a sequence of items in insertion order; an item holds its key
\* and the fields of its value
Keys(d) == {d[i].key : i \in 1..Len(d)}

Item(key, page) ==
    [key |-> key, url |-> page.url, status_code |-> page.status_code,
     error |-> page.error]

\* self.pages[url] = page: a new key is appended, an existing key keeps its
\* position and gets the new value
DictSet(d, key, page) ==
    IF key \in Keys(d)
    THEN [i \in 1..Len(d) |-> IF d[i].key = key THEN Item(key, page) ELSE d[i]]
    ELSE Append(d, Item(key, page))

\* the fields of a PageData that the loop and run_analysis read afterwards
Stored(page) ==
    [url |-> page.url, status_code |-> page.status_code, error |-> page.error]

\* ---------------------------------------------------------- crawl() pieces
\* off by one: `<=` for `<` in the while condition
LoopConditionInclusive(q, n, m) == q # <<>> /\ n <= m

\* while queue and len(self.pages) < self.max_pages
LoopCondition(q, n, m) == q # <<>> /\ n < m

\* pop() for popleft(): the frontier used as a stack
PopRight(q) == [url |-> q[Len(q)], rest |-> SubSeq(q, 1, Len(q) - 1)]

\* url = queue.popleft()
PopLeft(q) == [url |-> Head(q), rest |-> Tail(q)]

\* off by one: `<=` for `<` in the cap on visited
AdmitCapInclusive(link, vis, m) ==
    /\ link \notin vis
    /\ is_crawlable_url(link)
    /\ Cardinality(vis) <= m * 2

\* the dedup test `link not in self.visited` left out
AdmitNoDedup(link, vis, m) ==
    /\ is_crawlable_url(link)
    /\ Cardinality(vis) < m * 2

\* the cap `len(self.visited) < self.max_pages * 2` left out
AdmitNoCap(link, vis, m) ==
    /\ link \notin vis
    /\ is_crawlable_url(link)

\* the dedup test made against the recorded pages instead of visited
AdmitUnrecordedOnly(link, vis, m) ==
    /\ link \notin Keys(pages)
    /\ is_crawlable_url(link)
    /\ Cardinality(vis) < m * 2

\* the test of the `for link in page.internal_links` loop
Admit(link, vis, m) ==
    /\ link \notin vis
    /\ is_crawlable_url(link)
    /\ Cardinality(vis) < m * 2

\* the first condition of the admission test that fails for `link`
Refusal(link, vis, m) ==
    IF link \in vis THEN "visited"
    ELSE IF ~is_crawlable_url(link) THEN "extension"
    ELSE "cap"

\* appendleft() for append(): a discovered link goes to the frontier head
RECURSIVE DiscoverFront(_, _, _, _, _)
DiscoverFront(links, vis, q, m, rej) ==
    IF links = <<>> THEN [visited |-> vis, queue |-> q, rejected |-> rej]
    ELSE IF Admit(Head(links), vis, m)
         THEN DiscoverFront(Tail(links), vis \cup {Head(links)},
                            <<Head(links)>> \o q, m, rej)
         ELSE DiscoverFront(Tail(links), vis, q, m,
                            rej \cup {Refusal(Head(links), vis, m)})

\* for link in page.internal_links: ... visited.add(link); queue.append(link)
RECURSIVE Discover(_, _, _, _, _)
Discover(links, vis, q, m, rej) ==
    IF links = <<>> THEN [visited |-> vis, queue |-> q, rejected |-> rej]
    ELSE IF Admit(Head(links), vis, m)
         THEN Discover(Tail(links), vis \cup {Head(links)},
                       Append(q, Head(links)), m, rej)
         ELSE Discover(Tail(links), vis, q, m,
                       rej \cup {Refusal(Head(links), vis, m)})

\* the sleep made unconditional
ShouldSleepAlways(q, n, m) == TRUE

\* if queue and len(self.pages) < self.max_pages: time.sleep(self.delay)
ShouldSleep(q, n, m) == q # <<>> /\ n < m

\* io entries: session.get(url) with how it ended ("response" or
\* "RequestException"), and time.sleep(self.delay)
Get(url, resp) ==
    [call |-> "get", url |-> url,
     result |-> IF resp.exc THEN "RequestException" ELSE "response"]

NoUrl == Url(0, "", "")

Sleep == [call |-> "sleep", url |-> NoUrl, result |-> "slept"]

\* ------------------------------------------------------------------ state
\* `call` and `ret` while no function is being called on its own
NoCall == [fn |-> "none"]

\* After Crawler.__init__: robots.txt has been loaded, nothing is visited.
\* No response is pinned: every URL may answer with any response.
Init ==
    /\ site = <<>>
    /\ base_url = P(1)
    /\ max_pages \in 1..MaxBudget
    /\ robots_parser \in _load_robots(URLs)
    /\ visited = {}
    /\ pages = <<>>
    /\ queue = <<>>
    /\ io = <<>>
    /\ rejected = {}
    /\ dequeues = 0
    /\ pc = "constructed"
    /\ call = NoCall
    /\ ret = NoCall

\* the seed put on the frontier twice
CrawlStartTwice ==
    /\ pc = "constructed"
    /\ queue' = <<base_url, base_url>>
    /\ visited' = visited \cup {base_url}
    /\ pc' = "crawling"
    /\ UNCHANGED <<site, base_url, max_pages, robots_parser, pages, io, rejected>>
    /\ UNCHANGED <<dequeues, call, ret>>

\* self.visited.add(self.base_url) left out
CrawlStartUnmarked ==
    /\ pc = "constructed"
    /\ queue' = <<base_url>>
    /\ pc' = "crawling"
    /\ UNCHANGED <<site, base_url, max_pages, robots_parser, visited, pages, io, rejected>>
    /\ UNCHANGED <<dequeues, call, ret>>

\* crawl(): queue = deque([base_url]); visited.add(base_url)
CrawlStart ==
    /\ pc = "constructed"
    /\ queue' = <<base_url>>
    /\ visited' = visited \cup {base_url}
    /\ pc' = "crawling"
    /\ UNCHANGED <<site, base_url, max_pages, robots_parser, pages, io, rejected>>
    /\ UNCHANGED <<dequeues, call, ret>>

\* the politeness delay taken before the `continue`
CrawlSkipDelayed ==
    /\ pc = "crawling"
    /\ LoopCondition(queue, Len(pages), max_pages)
    /\ ~_can_fetch(robots_parser, PopLeft(queue).url)
    /\ queue' = PopLeft(queue).rest
    /\ io' = Append(io, Sleep)
    /\ UNCHANGED <<site, base_url, max_pages, robots_parser, visited, pages, rejected, pc>>
    /\ dequeues' = dequeues + 1
    /\ UNCHANGED <<call, ret>>

\* one loop iteration whose URL the robots gate denies: `continue`
CrawlSkip ==
    /\ pc = "crawling"
    /\ LoopCondition(queue, Len(pages), max_pages)
    /\ ~_can_fetch(robots_parser, PopLeft(queue).url)
    /\ queue' = PopLeft(queue).rest
    /\ UNCHANGED <<site, base_url, max_pages, robots_parser, visited, pages, io, rejected, pc>>
    /\ dequeues' = dequeues + 1
    /\ UNCHANGED <<call, ret>>

\* one loop iteration that fetches: record the page, fold its internal
\* links into visited/queue, sleep when the loop is going to continue
CrawlFetch ==
    /\ pc = "crawling"
    /\ LoopCondition(queue, Len(pages), max_pages)
    /\ _can_fetch(robots_parser, PopLeft(queue).url)
    /\ \E resp \in Serve(PopLeft(queue).url) :
        LET url == PopLeft(queue).url
            page == _fetch_page(url, resp)
        IN  /\ page # Raised
            /\ LET ps == DictSet(pages, url, Stored(page))
                   d == Discover(page.internal_links, visited,
                                 PopLeft(queue).rest, max_pages, rejected)
               IN  /\ pages' = ps
                   /\ visited' = d.visited
                   /\ queue' = d.queue
                   /\ rejected' = d.rejected
                   /\ io' = IF ShouldSleep(d.queue, Len(ps), max_pages)
                            THEN io \o <<Get(url, resp), Sleep>>
                            ELSE Append(io, Get(url, resp))
    /\ UNCHANGED <<site, base_url, max_pages, robots_parser, pc>>
    /\ dequeues' = dequeues + 1
    /\ UNCHANGED <<call, ret>>

\* one loop iteration in which _fetch_page raises: the exception leaves
\* crawl() (and run_analysis, which has no handler around it)
CrawlRaise ==
    /\ pc = "crawling"
    /\ LoopCondition(queue, Len(pages), max_pages)
    /\ _can_fetch(robots_parser, PopLeft(queue).url)
    /\ \E resp \in Serve(PopLeft(queue).url) :
        /\ _fetch_page(PopLeft(queue).url, resp) = Raised
        /\ io' = Append(io, Get(PopLeft(queue).url, resp))
    /\ queue' = PopLeft(queue).rest
    /\ pc' = "raised"
    /\ UNCHANGED <<site, base_url, max_pages, robots_parser, visited, pages, rejected>>
    /\ dequeues' = dequeues + 1
    /\ UNCHANGED <<call, ret>>

\* a return from inside the loop, whatever the while condition says
CrawlReturnEarly ==
    /\ pc = "crawling"
    /\ pc' = "returned"
    /\ UNCHANGED <<site, base_url, max_pages, robots_parser, visited, pages, queue, io, rejected>>
    /\ UNCHANGED <<dequeues, call, ret>>

\* the while condition is false: return self.pages
CrawlReturn ==
    /\ pc = "crawling"
    /\ ~LoopCondition(queue, Len(pages), max_pages)
    /\ pc' = "returned"
    /\ UNCHANGED <<site, base_url, max_pages, robots_parser, visited, pages, queue, io, rejected>>
    /\ UNCHANGED <<dequeues, call, ret>>

\* run_analysis: `if not pages:` print "nothing crawled" and sys.exit(1)
NothingCrawled ==
    /\ pc = "returned"
    /\ pages = <<>>
    /\ pc' = "exit"
    /\ UNCHANGED <<site, base_url, max_pages, robots_parser, visited, pages, queue, io, rejected>>
    /\ UNCHANGED <<dequeues, call, ret>>

\* run_analysis: pages is non-empty, go on to the analyzers
Analyse ==
    /\ pc = "returned"
    /\ pages # <<>>
    /\ pc' = "analysing"
    /\ UNCHANGED <<site, base_url, max_pages, robots_parser, visited, pages, queue, io, rejected>>
    /\ UNCHANGED <<dequeues, call, ret>>

Next ==
    \/ CrawlStart
    \/ CrawlSkip
    \/ CrawlFetch
    \/ CrawlRaise
    \/ CrawlReturn
    \/ NothingCrawled
    \/ Analyse

Spec == Init /\ [][Next]_vars

\* ------------------------------------------------- synthetic site graphs
\* A six-page site with a back-link, a self-link and a repeated target;
\* every response is pinned, so the link structure of the site is known.
Skeleton ==
    (P(1) :> Html(200, <<P(2), P(3)>>))
        @@ (P(2) :> Html(200, <<P(5), P(1)>>))
        @@ (P(3) :> Html(200, <<P(4), P(3)>>))
        @@ (P(4) :> Html(200, <<P(6), P(5), P(6)>>))
        @@ (P(5) :> Html(200, <<P(1)>>))
        @@ (P(6) :> Html(200, <<>>))

Reverse(l) == [i \in 1..Len(l) |-> l[Len(l) + 1 - i]]

\* a page that links to every page of the site and to a PDF file
Hub ==
    [i \in 1..Cardinality(DOMAIN Skeleton) |-> P(i)] \o <<Url(1, ".pdf", "a.com")>>

\* other answers the page `u` of the skeleton may give
Variants(u) ==
    {TransportFailure, NonHtml(200), HtmlBadHref(200),
     Html(404, Skeleton[u].links), Html(200, Reverse(Skeleton[u].links)),
     Html(200, <<>>), Html(200, Hub), HtmlRedirected(200, Skeleton[u].links)}
        \cup {Html(200, Append(Skeleton[u].links, v)) : v \in DOMAIN Skeleton}
        \cup {Html(200, <<v>> \o Skeleton[u].links) : v \in DOMAIN Skeleton}

\* the skeleton, and the skeleton with one page answering differently
Sites ==
    {Skeleton}
        \cup UNION {{[Skeleton EXCEPT ![u] = r] : r \in Variants(u)} :
                        u \in DOMAIN Skeleton}

InitSite ==
    /\ site \in Sites
    /\ base_url = P(1)
    /\ max_pages \in {2, MaxBudget, Cardinality(DOMAIN Skeleton)}
    /\ robots_parser \in _load_robots(DOMAIN Skeleton)
    /\ visited = {}
    /\ pages = <<>>
    /\ queue = <<>>
    /\ io = <<>>
    /\ rejected = {}
    /\ dequeues = 0
    /\ pc = "constructed"
    /\ call = NoCall
    /\ ret = NoCall

SpecSite == InitSite /\ [][Next]_vars

\* crawl() runs in a single thread that never stops between statements, and
\* every session.get comes back (timeout=15): a step that can be taken is
\* taken
FairSpecSite == InitSite /\ [][Next]_vars /\ WF_vars(Next)

\* ------------------------------------------- crawl() called more than once
\* invocations of crawl() on one Crawler instance
MaxCalls == 2

\* after Crawler.__init__, with the invocations of crawl() counted: the one
\* CrawlStart makes is the first
InitAgain ==
    /\ site = <<>>
    /\ base_url = P(1)
    /\ max_pages \in 1..MaxBudget
    /\ robots_parser \in _load_robots(URLs)
    /\ visited = {}
    /\ pages = <<>>
    /\ queue = <<>>
    /\ io = <<>>
    /\ rejected = {}
    /\ dequeues = 0
    /\ pc = "constructed"
    /\ call = [fn |-> "crawl", calls |-> 1]
    /\ ret = NoCall

\* crawl() called again after it returned: visited and pages are fields of
\* the instance and are kept, the queue is a new deque holding the seed
CrawlAgain ==
    /\ pc = "returned"
    /\ call.calls < MaxCalls
    /\ queue' = <<base_url>>
    /\ visited' = visited \cup {base_url}
    /\ pc' = "crawling"
    /\ call' = [call EXCEPT !.calls = @ + 1]
    /\ UNCHANGED <<site, base_url, max_pages, robots_parser, pages, io, rejected>>
    /\ UNCHANGED <<dequeues, ret>>

NextAgain ==
    \/ Next
    \/ CrawlAgain

SpecAgain == InitAgain /\ [][NextAgain]_vars

\* ------------------------------------------------- links of every kind
\* what an href may normalise to: a page of the site, an image of the site,
\* the same path on another host, and the same path on another port
LinkTargets ==
    {P(1), P(2), Url(2, ".png", "a.com"), Url(2, "", "b.com"),
     [P(2) EXCEPT !.port = "8080"]}

\* the seed the command line gives: a page, or a file of the site
Seeds == {P(1), Url(1, ".pdf", "a.com")}

\* robots.txt allows everything, or denies one URL
LinkRules(U) ==
    {NoRules(U)} \cup {[NoRules(U) EXCEPT ![u] = "deny"] : u \in U}

\* the seed answers with links of every kind, P(2) with one link of any
\* kind or with an href that normalize_url cannot parse, and P(1), when it
\* is not the seed, with a page without links
InitLinks ==
    /\ base_url \in Seeds
    /\ \E l1 \in LinkSeqs(LinkTargets) :
       \E r2 \in {Html(200, <<t>>) : t \in LinkTargets} \cup {HtmlBadHref(200)} :
           site = (base_url :> Html(200, l1)) @@ (P(2) :> r2)
                      @@ (P(1) :> Html(200, <<>>))
    /\ max_pages \in {1, 2}
    /\ robots_parser \in {Parsed(r) : r \in LinkRules(URLs \cup LinkTargets \cup Seeds)}
    /\ visited = {}
    /\ pages = <<>>
    /\ queue = <<>>
    /\ io = <<>>
    /\ rejected = {}
    /\ dequeues = 0
    /\ pc = "constructed"
    /\ call = NoCall
    /\ ret = NoCall

SpecLinks == InitLinks /\ [][Next]_vars

\* ------------------------------------------------ utils.py on URL text
\* A URL text is the absolute URL "http://h" followed by a sequence of
\* characters over Alphabet that is empty or starts with "/", "?" or "#",
\* so that scheme and host are always "http" and "h".  Only the sequence
\* is kept.
MaxLen == 5

Alphabet == {"/", "?", "#", "a"}

Texts ==
    {t \in UNION {[1..n -> Alphabet] : n \in 0..MaxLen} : t = <<>> \/ t[1] # "a"}

\* str.find: the first position of c in t, 0 when there is none
Find(t, c) ==
    IF c \in Range(t) THEN CHOOSE i \in 1..Len(t) :
                              /\ t[i] = c
                              /\ \A j \in 1..(i - 1) : t[j] # c
    ELSE 0

\* urllib.parse.urlparse: the fragment is split off at the first "#", then
\* the query at the first "?"
urlparse(t) ==
    LET h == Find(t, "#")
        nofrag == IF h = 0 THEN t ELSE SubSeq(t, 1, h - 1)
        q == Find(nofrag, "?")
    IN  [path |-> IF q = 0 THEN nofrag ELSE SubSeq(nofrag, 1, q - 1),
         query |-> IF q = 0 THEN <<>> ELSE SubSeq(nofrag, q + 1, Len(nofrag)),
         fragment |-> IF h = 0 THEN <<>> ELSE SubSeq(t, h + 1, Len(t))]

\* urllib.parse.urlunparse: an empty query or fragment is written without
\* its delimiter
urlunparse(p) ==
    p.path \o (IF p.query # <<>> THEN <<"?">> \o p.query ELSE <<>>)
           \o (IF p.fragment # <<>> THEN <<"#">> \o p.fragment ELSE <<>>)

\* the bases: none, a page of the same scheme, a page of another scheme
Bases == {"", "http://h/a", "https://h/a"}

\* urllib.parse.urljoin for a reference that carries scheme and host: the
\* reference comes back untouched when the schemes differ, reassembled
\* from its parts otherwise
urljoin(base, t) ==
    IF base = "https://h/a" THEN t ELSE urlunparse(urlparse(t))

\* urllib.parse.urldefrag: reassembled without fragment when the text
\* holds a "#", untouched otherwise
urldefrag(t) ==
    IF "#" \in Range(t) THEN urlunparse([urlparse(t) EXCEPT !.fragment = <<>>])
    ELSE t

\* str.rstrip(c)
RECURSIVE rstrip(_, _)
rstrip(t, c) ==
    IF t # <<>> /\ t[Len(t)] = c THEN rstrip(SubSeq(t, 1, Len(t) - 1), c) ELSE t

\* str.endswith(c)
endswith(t, c) == t # <<>> /\ t[Len(t)] = c

\* utils.normalize_url
normalize_url(url, base) ==
    LET joined == IF base # "" THEN urljoin(base, url) ELSE url
        defragged == urldefrag(joined)
        parsed == urlparse(defragged)
    IN  IF parsed.path # <<>> /\ parsed.path # <<"/">> /\ endswith(parsed.path, "/")
        THEN rstrip(defragged, "/")
        ELSE defragged

\* A URL as is_same_domain sees it: scheme, host, an explicit port ("" for
\* none), and whether its authority holds an unbalanced "[", on which
\* urlparse raises ValueError.
SiteUrls ==
    [scheme : {"http", "https"}, host : {"a.com", "b.com"}, port : {"", "8080"},
     bracket : BOOLEAN]

\* A URL text as is_crawlable_url sees it: a sequence of pieces, where a
\* piece is one character or a whole file extension in lower or upper case.
MaxPieces == 4

Pieces == {"/", "a", ".png", ".PNG", "?", "#"}

PieceTexts == UNION {[1..n -> Pieces] : n \in 0..MaxPieces}

\* str.lower
lower(t) == [i \in 1..Len(t) |-> IF t[i] = ".PNG" THEN ".png" ELSE t[i]]

\* the extension test on the whole text instead of the path
is_crawlable_text_unparsed(t) ==
    ~\E ext \in skip_extensions : endswith(lower(t), ext)

\* utils.is_crawlable_url on a URL text
is_crawlable_text(t) ==
    ~\E ext \in skip_extensions : endswith(lower(urlparse(t).path), ext)

\* one call of a function of utils.py
UtilCalls ==
    {[fn |-> "normalize_url", url |-> t, base |-> b] : t \in Texts, b \in Bases}
        \cup {[fn |-> "is_same_domain", link |-> u, seed |-> b] :
                u \in SiteUrls, b \in SiteUrls}
        \cup {[fn |-> "is_crawlable_url", url |-> t] : t \in PieceTexts}

Returned(v) == [fn |-> "returned", value |-> v]

\* no crawl is running: one function is called on one input
InitUtils ==
    /\ site = <<>>
    /\ base_url = P(1)
    /\ max_pages = 1
    /\ robots_parser = Missing(URLs)
    /\ visited = {}
    /\ pages = <<>>
    /\ queue = <<>>
    /\ io = <<>>
    /\ rejected = {}
    /\ dequeues = 0
    /\ pc = "calling"
    /\ call \in UtilCalls
    /\ ret = NoCall

CallNormalizeUrl ==
    /\ pc = "calling"
    /\ call.fn = "normalize_url"
    /\ ret = NoCall
    /\ ret' = Returned(normalize_url(call.url, call.base))
    /\ UNCHANGED <<site, base_url, max_pages, robots_parser, visited, pages, queue, io,
                   rejected, dequeues, pc, call>>

CallIsSameDomain ==
    /\ pc = "calling"
    /\ call.fn = "is_same_domain"
    /\ ret = NoCall
    /\ ret' = Returned(is_same_domain(call.link, call.seed))
    /\ UNCHANGED <<site, base_url, max_pages, robots_parser, visited, pages, queue, io,
                   rejected, dequeues, pc, call>>

CallIsCrawlableUrl ==
    /\ pc = "calling"
    /\ call.fn = "is_crawlable_url"
    /\ ret = NoCall
    /\ ret' = Returned(is_crawlable_text(call.url))
    /\ UNCHANGED <<site, base_url, max_pages, robots_parser, visited, pages, queue, io,
                   rejected, dequeues, pc, call>>

NextUtils ==
    \/ CallNormalizeUrl
    \/ CallIsSameDomain
    \/ CallIsCrawlableUrl

SpecUtils == InitUtils /\ [][NextUtils]_vars

\* ------------------------------------------- _fetch_page, field by field
\* Header names as a server may write them, and str.lower on them
HeaderKeys == {"Content-Type", "content-type", "Set-Cookie", "set-cookie"}

lower_key(k) ==
    IF k \in {"Content-Type", "content-type"} THEN "content-type" ELSE "set-cookie"

HeaderNames == {lower_key(k) : k \in HeaderKeys}

HeaderValues(n) ==
    IF n = "content-type"
    THEN {"text/html", "text/html; charset=utf-8", "application/pdf", "text/plain"}
    ELSE {"sid=1"}

Absent == [key |-> "", value |-> ""]

\* resp.headers, a requests CaseInsensitiveDict: one entry per lower-cased
\* name, holding the name as the server wrote it and the value
CaseInsensitiveDicts ==
    {h \in [HeaderNames -> {Absent} \cup [key : HeaderKeys, value : UNION {HeaderValues(n) : n \in HeaderNames}]] :
        \A n \in HeaderNames :
            h[n] # Absent => lower_key(h[n].key) = n /\ h[n].value \in HeaderValues(n)}

NoHeaders == [n \in HeaderNames |-> Absent]

\* CaseInsensitiveDict.get(key, default)
ci_get(h, k, default) ==
    IF h[lower_key(k)] # Absent THEN h[lower_key(k)].value ELSE default

\* dict(resp.headers): a plain dict keyed by the names as written
dict(h) ==
    [k \in {h[n].key : n \in {m \in HeaderNames : h[m] # Absent}} |->
        h[lower_key(k)].value]

\* dict.get(key, default)
dict_get(d, k, default) == IF k \in DOMAIN d THEN d[k] ELSE default

\* "text/html" in content_type
contains_text_html(ct) == ct \in {"text/html", "text/html; charset=utf-8"}

\* A response body: what _parse_html would extract from it, its size, and
\* whether it holds an href on which normalize_url raises.  EmptyBody is
\* the empty text.
External == Url(0, "", "b.com")

EmptyBody ==
    [title |-> "", internal |-> <<>>, external |-> <<>>, words |-> 0, bytes |-> 0,
     bad_href |-> FALSE]

Bodies ==
    {EmptyBody,
     [title |-> "T", internal |-> <<P(2), P(1)>>, external |-> <<External>>,
      words |-> 6, bytes |-> 64, bad_href |-> FALSE],
     [title |-> "T", internal |-> <<>>, external |-> <<>>, words |-> 6, bytes |-> 64,
      bad_href |-> TRUE]}

\* what session.get(url) may do: raise RequestException, or return a
\* response with a status, headers and a body
FullResponses ==
    {[exc |-> TRUE, status |-> 0, headers |-> NoHeaders, body |-> EmptyBody]}
        \cup [exc : {FALSE}, status : StatusCodes, headers : CaseInsensitiveDicts,
              body : Bodies]

\* PageData(url=url): every other field at its default
NewPageData(url) ==
    [url |-> url, status_code |-> 0, content_type |-> "", html |-> EmptyBody,
     headers |-> dict(NoHeaders), response_time |-> "0.0", content_length |-> 0,
     title |-> "", internal_links |-> <<>>, external_links |-> <<>>,
     word_count |-> 0, error |-> ""]

\* the fields set from the response before the Content-Type test
Received(url, resp) ==
    [NewPageData(url) EXCEPT
        !.response_time = "measured",
        !.status_code = resp.status,
        !.content_type = ci_get(resp.headers, "Content-Type", ""),
        !.headers = dict(resp.headers),
        !.content_length = resp.body.bytes]

\* the fields set by _parse_html
Parsed_html(page, body) ==
    [page EXCEPT
        !.html = body,
        !.title = body.title,
        !.internal_links = body.internal,
        !.external_links = body.external,
        !.word_count = body.words]

\* the Content-Type test left out: every body is parsed
_fetch_page_fields_always_parsed(url, resp) ==
    IF resp.exc
    THEN [NewPageData(url) EXCEPT !.error = "RequestException", !.status_code = 0]
    ELSE IF resp.body.bad_href THEN Raised
    ELSE Parsed_html(Received(url, resp), resp.body)

\* resp.raise_for_status() added after the fields are set: an HTTP error
\* status ends in the except clause
_fetch_page_fields_raise_for_status(url, resp) ==
    IF resp.exc
    THEN [NewPageData(url) EXCEPT !.error = "RequestException", !.status_code = 0]
    ELSE IF resp.status >= 400
    THEN [Received(url, resp) EXCEPT !.error = "HTTPError", !.status_code = 0]
    ELSE IF ~contains_text_html(Received(url, resp).content_type)
    THEN Received(url, resp)
    ELSE IF resp.body.bad_href THEN Raised
    ELSE Parsed_html(Received(url, resp), resp.body)

\* Crawler._fetch_page with every field of the PageData it returns
_fetch_page_fields(url, resp) ==
    IF resp.exc
    THEN [NewPageData(url) EXCEPT !.error = "RequestException", !.status_code = 0]
    ELSE IF ~contains_text_html(Received(url, resp).content_type)
    THEN Received(url, resp)
    ELSE IF resp.body.bad_href THEN Raised
    ELSE Parsed_html(Received(url, resp), resp.body)

FetchCalls == [fn : {"_fetch_page"}, url : URLs, resp : FullResponses]

\* no crawl is running: _fetch_page is called on one URL
InitFetch ==
    /\ site = <<>>
    /\ base_url = P(1)
    /\ max_pages = 1
    /\ robots_parser = Missing(URLs)
    /\ visited = {}
    /\ pages = <<>>
    /\ queue = <<>>
    /\ io = <<>>
    /\ rejected = {}
    /\ dequeues = 0
    /\ pc = "calling"
    /\ call \in FetchCalls
    /\ ret = NoCall

CallFetchPage ==
    /\ pc = "calling"
    /\ call.fn = "_fetch_page"
    /\ ret = NoCall
    /\ _fetch_page_fields(call.url, call.resp) # Raised
    /\ ret' = Returned(_fetch_page_fields(call.url, call.resp))
    /\ UNCHANGED <<site, base_url, max_pages, robots_parser, visited, pages, queue, io,
                   rejected, dequeues, pc, call>>

CallFetchPageRaises ==
    /\ pc = "calling"
    /\ call.fn = "_fetch_page"
    /\ ret = NoCall
    /\ _fetch_page_fields(call.url, call.resp) = Raised
    /\ ret' = Raised
    /\ UNCHANGED <<site, base_url, max_pages, robots_parser, visited, pages, queue, io,
                   rejected, dequeues, pc, call>>

NextFetch ==
    \/ CallFetchPage
    \/ CallFetchPageRaises

SpecFetch == InitFetch /\ [][NextFetch]_vars

\* ------------------------------------------------------- calculate_score
\* findings given to one call of calculate_score
MaxFindings == 8

\* models.Severity
Severity == {"good", "info", "warning", "error"}

FindingLists == UNION {[1..n -> Severity] : n \in 0..MaxFindings}

\* the for loop of calculate_score: `score` after the findings left to read
RECURSIVE score_after(_, _)
score_after(score, findings) ==
    IF findings = <<>> THEN score
    ELSE score_after(IF Head(findings) = "error" THEN score - 15
                     ELSE IF Head(findings) = "warning" THEN score - 5
                     ELSE score,
                     Tail(findings))

\* the builtin max of two integers
max(a, b) == IF a >= b THEN a ELSE b

\* the score returned as the loop leaves it
calculate_score_unclamped(findings) == score_after(100, findings)

\* utils.calculate_score
calculate_score(findings) == max(0, score_after(100, findings))

ScoreCalls == {[fn |-> "calculate_score", findings |-> f] : f \in FindingLists}

InitScore ==
    /\ site = <<>>
    /\ base_url = P(1)
    /\ max_pages = 1
    /\ robots_parser = Missing(URLs)
    /\ visited = {}
    /\ pages = <<>>
    /\ queue = <<>>
    /\ io = <<>>
    /\ rejected = {}
    /\ dequeues = 0
    /\ pc = "calling"
    /\ call \in ScoreCalls
    /\ ret = NoCall

CallCalculateScore ==
    /\ pc = "calling"
    /\ call.fn = "calculate_score"
    /\ ret = NoCall
    /\ ret' = Returned(calculate_score(call.findings))
    /\ UNCHANGED <<site, base_url, max_pages, robots_parser, visited, pages, queue, io,
                   rejected, dequeues, pc, call>>

NextScore == CallCalculateScore

SpecScore == InitScore /\ [][NextScore]_vars

\* ================================================================ claims
IsGet(e) == e.call = "get"

Gets == SelectSeq(io, IsGet)

GetsOf(url) == {i \in 1..Len(io) : IsGet(io[i]) /\ io[i].url = url}

KnownUrls == visited \cup Keys(pages) \cup Range(queue) \cup {base_url}

Denied(url) == can_fetch(robots_parser, url) = "deny"

\* the URLs that were dequeued and dropped by the robots gate
Skipped == {u \in visited : Denied(u) /\ u \notin Range(queue)}

CrawlOver == pc \in {"returned", "exit", "analysing"}

\* C1: the number of entries of pages never exceeds max_pages
C1_ResultsWithinBudget == Len(pages) <= max_pages

\* the budget was used up while the frontier still held URLs
C1_Witness ==
    /\ pc = "returned"
    /\ Len(pages) = max_pages
    /\ queue # <<>>

\* C2: the visited set, seed included, never exceeds 2 x max_pages
C2_VisitedWithinCap == Cardinality(visited) <= 2 * max_pages

\* the cap was reached and turned a link down
C2_Witness ==
    /\ Cardinality(visited) = 2 * max_pages
    /\ "cap" \in rejected

\* C3: no URL is fetched twice and every key of pages was written by
\* exactly one fetch
C3_FetchedAtMostOnce ==
    /\ \A u \in KnownUrls : Cardinality(GetsOf(u)) <= 1
    /\ \A u \in Keys(pages) : Cardinality(GetsOf(u)) = 1
    /\ Len(pages) = Cardinality(Keys(pages))

\* two pages were fetched and a link to an already visited URL (a cycle, a
\* self-link or a repeated target) was turned down
C3_Witness ==
    /\ Len(pages) >= 2
    /\ "visited" \in rejected

\* the pages of a pinned site the page `u` links to
LinksOf(u) ==
    IF site[u].html /\ ~site[u].bad_href
    THEN Range(site[u].links) \cap DOMAIN site
    ELSE {}

\* the link graph of the whole site
SiteGraph == [u \in DOMAIN site |-> LinksOf(u)]

\* the link graph the crawl has seen: the links of the recorded pages
RecordedGraph ==
    [u \in DOMAIN site |-> IF u \in Keys(pages) THEN LinksOf(u) ELSE {}]

RECURSIVE Within(_, _, _)
Within(g, src, k) ==
    IF k = 0 THEN {src}
    ELSE LET w == Within(g, src, k - 1)
         IN  w \cup UNION {g[u] : u \in w}

\* length of the shortest path from src to u in g; one more than the
\* number of nodes when there is none
Distance(g, src, u) ==
    LET n == Cardinality(DOMAIN g)
    IN  IF u \notin Within(g, src, n) THEN n + 1
        ELSE CHOOSE k \in 0..n :
                /\ u \in Within(g, src, k)
                /\ k = 0 \/ u \notin Within(g, src, k - 1)

\* C4 (as claimed): pages are recorded in non-decreasing order of their
\* link-distance from the seed in the site graph
C4_OrderedBySiteDistance ==
    \A i, j \in 1..Len(pages) :
        i < j => Distance(SiteGraph, base_url, pages[i].url)
                    <= Distance(SiteGraph, base_url, pages[j].url)

\* C4 (amended): pages are recorded in non-decreasing order of their
\* link-distance from the seed along links of recorded pages
C4_OrderedByRecordedDistance ==
    \A i, j \in 1..Len(pages) :
        i < j => Distance(RecordedGraph, base_url, pages[i].url)
                    <= Distance(RecordedGraph, base_url, pages[j].url)

\* a robots-denied page was dropped, and a page it links to was reached
\* over a longer path through recorded pages and recorded at distance 3
C4_Witness ==
    /\ DOMAIN site # {}
    /\ Skipped # {}
    /\ \E i \in 1..Len(pages) :
        /\ Distance(RecordedGraph, base_url, pages[i].url) = 3
        /\ Distance(SiteGraph, base_url, pages[i].url) = 2

\* C5: a URL the robots gate denies is never requested and is never a key
\* of pages
C5_RobotsExclusion ==
    \A u \in KnownUrls :
        Denied(u) => GetsOf(u) = {} /\ u \notin Keys(pages)

\* parsed rules deny a URL that was discovered, dequeued and dropped, while
\* other pages were fetched
C5_Witness ==
    /\ robots_parser.last_checked
    /\ Skipped # {}
    /\ Len(pages) >= 2

\* C6 (as claimed): after a failed robots.txt load the gate allows
\* everything, so a finished crawl has fetched the seed
C6_LoadFailureAllowsAll ==
    (robots_parser.load_failed /\ CrawlOver) => base_url \in Keys(pages)

\* C7 (as claimed): when the fetch of the seed fails at the transport
\* layer the run ends with "nothing crawled" and never reaches the analysis
C7_SeedFailureAborts ==
    (/\ pages # <<>>
     /\ pages[1].url = base_url
     /\ pages[1].error # "") => pc # "analysing"

\* C8: a transport failure comes back from _fetch_page as a stored record
\* with status_code 0 and an error, and crawl() returns only when the
\* frontier is empty or the budget is used up
C8_TransportFailureAbsorbed ==
    /\ \A i \in 1..Len(io) :
        io[i].result = "RequestException" =>
            \E k \in 1..Len(pages) :
                /\ pages[k].url = io[i].url
                /\ pages[k].status_code = 0
                /\ pages[k].error # ""
    /\ CrawlOver => (queue = <<>> \/ Len(pages) = max_pages)

\* a fetch failed at the transport layer and a later fetch was made
C8_Witness ==
    \E i, j \in 1..Len(io) :
        /\ i < j
        /\ io[i].result = "RequestException"
        /\ IsGet(io[j])

\* C9 (as claimed): the number of entries of pages equals the number of
\* fetch attempts made so far
C9_OneEntryPerAttempt == Len(pages) = Len(Gets)

C11_ReturnsExactlyAtLoopExit ==
    /\ [](pc = "returned" => (queue = <<>> \/ Len(pages) = max_pages))
    /\ [][(pc # "constructed" /\ (queue = <<>> \/ Len(pages) = max_pages)) =>
            /\ dequeues' = dequeues
            /\ queue' = queue
            /\ pages' = pages
            /\ visited' = visited
            /\ io' = io]_vars

\* crawl() returned with budget left because the frontier ran empty after
\* several dequeues
C11_Witness ==
    /\ pc = "returned"
    /\ queue = <<>>
    /\ Len(pages) < max_pages
    /\ dequeues >= 3

Terminated == pc \in {"returned", "exit", "analysing", "raised"}

\* C12: on every pinned site graph, cyclic ones included, crawl() comes to
\* an end, and it never dequeues more than 2 x max_pages URLs
C12_TerminatesWithinTwiceBudget ==
    /\ <>Terminated
    /\ [](dequeues <= 2 * max_pages)

\* a page linking to every page filled visited up to the cap, links were
\* turned down by the cap and by the dedup test, and 2 x max_pages URLs
\* were dequeued before crawl() returned
C12_Witness ==
    /\ pc = "returned"
    /\ dequeues = 2 * max_pages
    /\ {"cap", "visited"} \subseteq rejected

\* C13: visited never loses a URL, and every URL of the frontier and every
\* key of pages is in visited
C13_VisitedMonotoneAndCovering ==
    /\ [](Range(queue) \subseteq visited /\ Keys(pages) \subseteq visited)
    /\ [][visited \subseteq visited']_vars

\* visited holds a recorded, a skipped and a still queued URL
C13_Witness ==
    /\ pages # <<>>
    /\ Skipped # {}
    /\ queue # <<>>
    /\ Cardinality(visited) > Len(pages) + Len(queue)

Called(fn) == call.fn = fn /\ ret # NoCall

\* C14 (as claimed): normalizing the result of normalize_url again under
\* the same base gives the same text
C14_NormalizeIdempotent ==
    Called("normalize_url") => normalize_url(ret.value, call.base) = ret.value

\* the path without its last slash, unless it is exactly "/"
StripOneSlash(p) ==
    IF p # <<"/">> /\ endswith(p, "/") THEN SubSeq(p, 1, Len(p) - 1) ELSE p

\* C15 (as claimed): the result has no fragment, its path is the path of
\* the href with exactly one trailing slash removed unless the path is "/"
\* (also when a query follows), and its query is the query of the href
C15_NormalizeStripsOneSlashOnly ==
    Called("normalize_url") =>
        /\ urlparse(ret.value).fragment = <<>>
        /\ urlparse(ret.value).path = StripOneSlash(urlparse(call.url).path)
        /\ urlparse(ret.value).query = urlparse(call.url).query

\* C16 (as claimed): is_same_domain is true exactly when both URLs parse
\* and their hosts are the same string, whatever their schemes and ports
C16_SameSiteIffSameHost ==
    Called("is_same_domain") =>
        (ret.value <=> (/\ ~call.link.bracket
                        /\ ~call.seed.bracket
                        /\ call.link.host = call.seed.host))

\* the text up to its first "?" or "#"
PathOf(t) ==
    LET stops == {i \in 1..Len(t) : t[i] \in {"?", "#"}}
    IN  IF stops = {} THEN t
        ELSE SubSeq(t, 1, (CHOOSE i \in stops : \A j \in stops : i <= j) - 1)

\* C17: is_crawlable_url is false exactly when the path ends with an
\* extension of the deny-list (letter case ignored), and a text has the
\* verdict of its path alone, whatever query and fragment follow
C17_CrawlableDecidedByPathExtension ==
    Called("is_crawlable_url") =>
        /\ ~ret.value <=>
              (/\ PathOf(call.url) # <<>>
               /\ lower(PathOf(call.url))[Len(PathOf(call.url))] \in skip_extensions)
        /\ ret.value = is_crawlable_text(PathOf(call.url))

\* a crawlable text whose query ends with a deny-list extension
C17_Witness ==
    /\ Called("is_crawlable_url")
    /\ ret.value
    /\ Find(call.url, "?") > 0
    /\ Find(call.url, "#") = 0
    /\ endswith(call.url, ".png")

ReturnedPage == Called("_fetch_page") /\ ret # Raised

NothingExtracted(page) ==
    /\ page.html = EmptyBody
    /\ page.title = ""
    /\ page.internal_links = <<>>
    /\ page.external_links = <<>>
    /\ page.word_count = 0

\* the response _fetch_page reads, as the crawl loop's model sees it
Abstract(resp) ==
    LET html == ~resp.exc /\ contains_text_html(ci_get(resp.headers, "Content-Type", ""))
        bad == html /\ resp.body.bad_href
    IN  [exc |-> resp.exc, status |-> resp.status, html |-> html,
         links |-> IF html /\ ~bad THEN resp.body.internal ELSE <<>>,
         bad_href |-> bad, redirected |-> FALSE]

\* _fetch_page of the crawl loop is _fetch_page_fields with fields dropped
FetchModelsAgree ==
    Called("_fetch_page") =>
        LET short == _fetch_page(call.url, Abstract(call.resp))
        IN  IF ret = Raised THEN short = Raised
            ELSE /\ short # Raised
                 /\ short.url = ret.value.url
                 /\ short.status_code = ret.value.status_code
                 /\ short.error = ret.value.error
                 /\ short.internal_links = ret.value.internal_links

\* C18: a response whose Content-Type does not hold "text/html" gives a
\* record with the status, the headers and the content length of the
\* response and with nothing extracted, and the link loop of crawl()
\* enqueues nothing from it
C18_NonHtmlRecordedUnparsed ==
    (/\ ReturnedPage
     /\ ~call.resp.exc
     /\ ~contains_text_html(ci_get(call.resp.headers, "Content-Type", ""))) =>
        /\ ret.value.status_code = call.resp.status
        /\ ret.value.headers = dict(call.resp.headers)
        /\ ret.value.content_length = call.resp.body.bytes
        /\ NothingExtracted(ret.value)
        /\ Discover(ret.value.internal_links, {call.url}, <<>>, MaxBudget, {}).queue = <<>>

\* a PDF answer with status 200 whose body would yield links if parsed
C18_Witness ==
    /\ ReturnedPage
    /\ call.resp.status = 200
    /\ ci_get(call.resp.headers, "Content-Type", "") = "application/pdf"
    /\ call.resp.body.internal # <<>>
    /\ ret.value.content_length > 0

\* C19: a record with an error has status_code 0 and nothing from a
\* response or an extraction in it, and a record with a status_code other
\* than 0 has no error
C19_ErrorMeansNothingPopulated ==
    ReturnedPage =>
        /\ ret.value.error # "" =>
              /\ ret.value.status_code = 0
              /\ ret.value.content_type = ""
              /\ DOMAIN ret.value.headers = {}
              /\ ret.value.content_length = 0
              /\ ret.value.response_time = "0.0"
              /\ NothingExtracted(ret.value)
        /\ ret.value.status_code # 0 => ret.value.error = ""

\* session.get raised and the record carries the error
C19_Witness ==
    /\ ReturnedPage
    /\ call.resp.exc
    /\ ret.value.error # ""

\* C20 (as claimed): a lookup in the stored headers under any spelling of
\* a header name gives the value the response carried for that header
C20_HeadersCaseInsensitive ==
    (ReturnedPage /\ ~call.resp.exc) =>
        \A k \in HeaderKeys :
            call.resp.headers[lower_key(k)] # Absent =>
                dict_get(ret.value.headers, k, "") = call.resp.headers[lower_key(k)].value

\* C21 (as claimed): whatever happens while one URL is fetched or parsed,
\* no exception leaves crawl()
C21_NothingCrossesScheduler == pc # "raised"

\* where a URL stands: never seen, on the frontier, recorded, dropped by
\* the robots gate, or dequeued and handed to _fetch_page without a record
UrlState(u) ==
    IF u \notin visited THEN "unseen"
    ELSE IF u \in Range(queue) THEN "queued"
    ELSE IF u \in Keys(pages) THEN "recorded"
    ELSE IF ~_can_fetch(robots_parser, u) THEN "skipped"
    ELSE "fetching"

UrlMoves ==
    {<<"unseen", "queued">>, <<"queued", "fetching">>, <<"queued", "recorded">>,
     <<"queued", "skipped">>}

\* C23: a URL moves only unseen -> queued -> (fetching ->) recorded or
\* queued -> skipped; a recorded URL keeps its entry and is never fetched
\* again, and a skipped URL is never fetched and never recorded
C23_UrlLifecycle ==
    [][\A u \in visited' :
          /\ UrlState(u)' # UrlState(u) => <<UrlState(u), UrlState(u)'>> \in UrlMoves
          /\ UrlState(u) = "recorded" =>
                /\ GetsOf(u)' = GetsOf(u)
                /\ \E i \in 1..Len(pages) : pages[i].key = u /\ pages'[i] = pages[i]
          /\ UrlState(u) = "skipped" => GetsOf(u)' = {} /\ u \notin Keys(pages')]_vars

\* a recorded and a skipped URL were both linked to again by a later page
C23_Witness ==
    /\ Len(pages) >= 2
    /\ Skipped # {}
    /\ "visited" \in rejected
    /\ queue = <<>>

\* C24: an iteration whose dequeued URL the robots gate denies removes the
\* head of the frontier and changes nothing else: no entry, no visited
\* URL, no fetch, no delay
C24_SkipOnlyDropsHead ==
    [][(/\ pc = "crawling"
        /\ LoopCondition(queue, Len(pages), max_pages)
        /\ ~_can_fetch(robots_parser, Head(queue))) =>
            /\ queue' = Tail(queue)
            /\ pages' = pages
            /\ visited' = visited
            /\ io' = io
            /\ pc' = pc]_vars

\* two URLs were dropped one after the other after the only fetch
C24_Witness ==
    /\ Cardinality(Skipped) = 2
    /\ Len(pages) = 1
    /\ Len(io) = 2
    /\ queue = <<>>

\* C27: the frontier holds no URL twice and no URL that is a key of pages
C27_FrontierDistinctAndUnrecorded ==
    /\ \A i, j \in 1..Len(queue) : i # j => queue[i] # queue[j]
    /\ Range(queue) \cap Keys(pages) = {}

\* a URL waits on the frontier while a link to a recorded or queued URL
\* was turned down
C27_Witness ==
    /\ queue # <<>>
    /\ pages # <<>>
    /\ "visited" \in rejected

\* the internal links of the page the pinned site serves for `u`, in the
\* order of the page
LinkSeqOf(u) ==
    IF site[u].html /\ ~site[u].bad_href THEN site[u].links ELSE <<>>

\* the positions of `links` whose link is taken: the link is not in vis
\* and not taken at an earlier position, it is crawlable, and vis together
\* with the links taken before it holds fewer than 2 x m URLs
Taken(links, vis, m) ==
    CHOOSE I \in SUBSET (1..Len(links)) :
        \A i \in 1..Len(links) :
            i \in I <=>
                /\ links[i] \notin vis
                /\ \A j \in I : j < i => links[j] # links[i]
                /\ is_crawlable_url(links[i])
                /\ Cardinality(vis) + Cardinality({j \in I : j < i}) < 2 * m

\* the links at the positions I, in the order of `links`
Pick(links, I) ==
    [k \in 1..Cardinality(I) |->
        links[CHOOSE i \in I : Cardinality({j \in I : j <= i}) = k]]

\* C22: when a page is recorded, the frontier becomes its tail followed by
\* the taken links of the page in page order, visited gains exactly those
\* links, and a link that fails one of the three conditions changes neither
C22_LinksAdmittedInOrder ==
    [][pages' # pages =>
          LET links == LinkSeqOf(Head(queue))
              added == Pick(links, Taken(links, visited, max_pages))
          IN  /\ queue' = Tail(queue) \o added
              /\ visited' = visited \cup Range(added)]_vars

\* links were turned down by each of the three conditions while others
\* were appended
C22_Witness ==
    /\ rejected = {"visited", "extension", "cap"}
    /\ Len(queue) >= 2
    /\ pc = "crawling"

\* C25: the url field of every record is the key of its entry, and the key
\* of a new entry is the URL just dequeued, also when the response came
\* from another URL over redirects
C25_RecordNamedAfterRequest ==
    /\ [](\A i \in 1..Len(pages) : pages[i].url = pages[i].key)
    /\ [][pages' # pages =>
            /\ Len(pages') = Len(pages) + 1
            /\ pages'[Len(pages')].key = Head(queue)]_vars

\* a page whose fetch was redirected is recorded after the seed
C25_Witness ==
    \E i \in 2..Len(pages) :
        /\ pages[i].key \in DOMAIN site
        /\ site[pages[i].key].redirected

\* C26 (as claimed): once crawl() is over, pages is empty exactly when the
\* robots gate denies the seed, and when the gate allows the seed the seed
\* is the first key of pages, whatever its fetch did
C26_EmptyIffSeedDenied ==
    pc \notin {"constructed", "crawling"} =>
        /\ pages = <<>> <=> ~_can_fetch(robots_parser, base_url)
        /\ _can_fetch(robots_parser, base_url) =>
              pages # <<>> /\ pages[1].key = base_url

\* C28: every URL put on the frontier other than the seed is on the site
\* of base_url and is crawlable, and so is every key of pages other than
\* the seed
C28_FrontierSameSiteAndCrawlable ==
    /\ \A u \in (visited \cup Range(queue)) \ {base_url} :
            is_same_domain(u, base_url) /\ is_crawlable_url(u)
    /\ \A u \in Keys(pages) \ {base_url} : is_crawlable_url(u)

\* a seed that is a file is recorded, its page links to another host, a
\* second page is recorded and a link to an image was refused
C28_Witness ==
    /\ ~is_crawlable_url(base_url)
    /\ base_url \in Keys(pages)
    /\ \E i \in 1..Len(site[base_url].links) : site[base_url].links[i].host = "b.com"
    /\ Len(pages) >= 2
    /\ "extension" \in rejected

\* C29 (as claimed): in a later invocation of crawl() no URL that is a key
\* of pages is fetched, and no entry of pages is replaced
C29_NoRefetchAcrossCalls ==
    [][(call.calls >= 2 /\ io' # io) =>
          /\ Head(queue) \notin Keys(pages)
          /\ SubSeq(pages', 1, Len(pages)) = pages]_vars

\* how many findings of the call have the severity `sev`
Count(sev) == Cardinality({i \in 1..Len(call.findings) : call.findings[i] = sev})

Counts(f) == f \in {"error", "warning"}

\* C30: calculate_score returns 100 less 15 for every ERROR and 5 for every
\* WARNING, and 0 when that is negative; the result is in 0..100, is the
\* result for the ERROR and WARNING findings alone, and is not raised by one
\* more finding of any severity
C30_ScoreIsClampedPenaltySum ==
    Called("calculate_score") =>
        /\ LET sum == 100 - 15 * Count("error") - 5 * Count("warning")
           IN  ret.value = IF sum < 0 THEN 0 ELSE sum
        /\ ret.value \in 0..100
        /\ ret.value = calculate_score(SelectSeq(call.findings, Counts))
        /\ \A sev \in Severity :
              calculate_score(Append(call.findings, sev)) <= ret.value

\* a call whose penalties exceed 100, with a finding that does not count
C30_Witness ==
    /\ Called("calculate_score")
    /\ 15 * Count("error") + 5 * Count("warning") > 100
    /\ Count("good") + Count("info") > 0
    /\ ret.value = 0

====
